---- MODULE Spec2Model ----
(***************************************************************************)
(* A model of restbase (src/restbase/base.py) together with the reference  *)
(* client of its test-suite (src/tests/utils.py): the request pipeline of  *)
(* BaseConnector, BaseResource._api_call, and the per-operation mock slot  *)
(* installed by `operation` / `_mock_manager`.                             *)
(*                                                                         *)
(* Python values are modelled as records [tag, v]; a call's outcome is a   *)
(* record [kind, val] with kind "ret" (returned val) or "raise" (raised    *)
(* the exception object val).  Exception objects are records [cls, id]:    *)
(* two exceptions are the same object iff the records are equal.           *)
(***************************************************************************)
EXTENDS Integers, Sequences, FiniteSets, TLC

\* ------------------------------------------------------------------ bounds
\* The number of uses of the library in a run: mock() scopes opened and
\* wrapped operations called, together.
MaxUses == 3

\* ------------------------------------------------------------ the universe
Threads == {"t1", "t2"}
\* The operations of SomeResource, each wrapped with @operation.
Ops == {"create", "other_operation"}
\* Two clients of the same concrete type, as built by the test fixture; each
\* owns one SomeResource instance under the namespace "resource".
Clients == {"c1", "c2"}
\* `func._mock = None`: the empty slot.  Mock objects are numbered from 1.
None == 0

PyNone == [tag |-> "None", v |-> "None"]
Ret(x) == [kind |-> "ret", val |-> x]
Raise(e) == [kind |-> "raise", val |-> e]
Exc(cls, id) == [cls |-> cls, id |-> id]

\* ---------------------------------------------------------- ApiBaseException
\* ApiBaseException.__init__: the message and the four optional fields.
ApiBaseException(cls, msg, data, code, response) ==
    [cls |-> cls, id |-> msg, data |-> data, code |-> code,
     response |-> response, exc |-> PyNone]

\* ------------------------------------------------------------- ResponseClass
ResponseClass(response, code, data) ==
    [response |-> response, code |-> code, data |-> data]

\* ----------------------------------------------------------------- Connector
\* A Connector class: its name and the abstract hooks it overrides.
\* SomeConnector overrides all three, BaseConnector itself none.
AllHooks == {"create_headers", "encode_data", "decode_data"}
SomeConnector == [name |-> "SomeConnector", hooks |-> AllHooks]
\* An attribute that has not been assigned yet.
Unset == "<unset>"

\* create_headers: BaseConnector's raises; SomeConnector's reads
\* self.api_token and returns a new dict.  `at` names the invocation, and with
\* the Connector identifies the dict object created.
create_headers(self, at) ==
    IF "create_headers" \notin self.hooks
    THEN Raise(Exc("NotImplementedError", "create_headers"))
    ELSE IF self.api_token = Unset
    THEN Raise(Exc("AttributeError", "api_token"))
    ELSE Ret([oid |-> <<self.id, at>>,
              Authorization |-> self.api_token, UserAgent |-> "Python SDK",
              ContentType |-> "application/json", Accept |-> "application/json"])

\* BaseConnector.__init__: the three fields, then the headers, last.  The
\* object `id` of class `cls` is returned, or what create_headers raised.
BaseConnector(id, cls, api_token, test, timeout) ==
    LET s0 == [id |-> id, cls |-> cls.name, hooks |-> cls.hooks,
               api_token |-> Unset, test |-> Unset, timeout |-> Unset]
        s1 == [s0 EXCEPT !.api_token = api_token]
        s2 == [s1 EXCEPT !.test = test]
        s3 == [s2 EXCEPT !.timeout = timeout]
        headers == create_headers(s3, "__init__")
    IN  IF headers.kind = "raise" THEN headers
        ELSE Ret([id |-> s3.id, cls |-> s3.cls, hooks |-> s3.hooks,
                  api_token |-> s3.api_token, test |-> s3.test,
                  timeout |-> s3.timeout, headers |-> headers.val])

\* An encode_data whose base version hands the data on as it is.
encode_data_passing(self, method, data) ==
    IF "encode_data" \notin self.hooks THEN Ret(data)
    ELSE Ret([tag |-> "json", v |-> data])

\* encode_data: BaseConnector's raises; SomeConnector's is json.dumps(data).
encode_data(self, method, data) ==
    IF "encode_data" \notin self.hooks
    THEN Raise(Exc("NotImplementedError", "encode_data"))
    ELSE Ret([tag |-> "json", v |-> data])

\* decode_data: BaseConnector's raises; SomeConnector's is json.loads(rawdata),
\* and text that is not JSON raises ValueError.
decode_data(self, rawdata) ==
    IF "decode_data" \notin self.hooks
    THEN Raise(Exc("NotImplementedError", "decode_data"))
    ELSE IF rawdata.tag = "json" THEN Ret(rawdata.v)
    ELSE Raise(Exc("ValueError", "json.loads"))

\* str.upper on the method names in use.
Upper(method) ==
    CASE method = "post" -> "POST"
      [] method = "get" -> "GET"
      [] OTHER -> method

\* BaseConnector.pre_process_request: returns the request arguments as given.
pre_process_request(self, method, url, reqkwargs) == reqkwargs

\* BaseConnector.post_process_request: returns the envelope as given.
post_process_request(self, respcls) == respcls

\* A create_session that computes the headers anew for each session.
create_session_recomputing(self, sid) ==
    [id |-> sid, headers |-> create_headers(self, "create_session").val]

\* A create_session that hands out one Session kept for all the calls.
create_session_kept(self, sid) == [id |-> 0, headers |-> self.headers]

\* BaseConnector.create_session: a new Session, number sid, whose headers
\* attribute is set to the Connector's own headers dict (the same object).
create_session(self, sid) == [id |-> sid, headers |-> self.headers]

\* What the transport may answer to one dispatch: a response (status code and
\* body text) or a failure raised by session.request.
Payloads == {[tag |-> "dict", v |-> "status_OK"]}
Responses ==
    {[kind |-> "resp", status_code |-> c, text |-> [tag |-> "json", v |-> p]] :
        c \in {200, 201, 404}, p \in Payloads}
    \cup {[kind |-> "resp", status_code |-> 200,
           text |-> [tag |-> "text", v |-> "<html>"]]}
TransportFailures ==
    {[kind |-> "fail", exc |-> Exc(c, "transport")] :
        c \in {"Timeout", "ConnectionError"}}
Transport == Responses \cup TransportFailures

\* BaseConnector.send_request: a fresh session, then session.request; the
\* transport's failure propagates, its response is returned.  `env` is the
\* transport's answer and `sid` the identity of the Session() created.
send_request(self, method, url, reqkwargs, env, sid) ==
    LET session == create_session(self, sid)
        request == [session |-> session, method |-> method, url |-> url,
                    timeout |-> reqkwargs.timeout, data |-> reqkwargs.data]
    IN  IF env.kind = "fail"
        THEN [out |-> Raise(env.exc), request |-> request]
        ELSE [out |-> Ret([status_code |-> env.status_code, text |-> env.text,
                           session |-> sid]),
              request |-> request]

\* One entry of a call's stage trace: the stage entered and what it gave back
\* (the entry of send_request also holds the request it dispatched).
Stage(name, out) == [stage |-> name, out |-> out]

\* A make_request that runs pre_process_request before encode_data.
make_request_pre_first(self, url, method0, params, env, sid) ==
    LET method == Upper(method0)
        reqkwargs0 == [timeout |-> self.timeout]
        pre == pre_process_request(self, method, url, reqkwargs0)
        t1 == <<Stage("pre_process_request", Ret(pre))>>
        enc == encode_data(self, method, params)
        t2 == Append(t1, Stage("encode_data", enc))
        reqkwargs == [timeout |-> pre.timeout, data |-> enc.val]
        sent == send_request(self, method, url, reqkwargs, env, sid)
        t3 == Append(t2, Stage("send_request", sent.out))
    IN  IF sent.out.kind = "raise" THEN [out |-> sent.out, trace |-> t3]
        ELSE
        LET resp == sent.out.val
            dec == decode_data(self, resp.text)
            t4 == Append(t3, Stage("decode_data", dec))
        IN  IF dec.kind = "raise" THEN [out |-> dec, trace |-> t4]
            ELSE
            LET respcls == post_process_request(
                               self, ResponseClass(resp, resp.status_code, dec.val))
            IN  [out |-> Ret(respcls),
                 trace |-> Append(t4, Stage("post_process_request", Ret(respcls)))]

\* BaseConnector.make_request.  The result is the outcome together with the
\* trace of the stages entered, in the order they were entered.
make_request(self, url, method0, params, env, sid) ==
    LET method == Upper(method0)
        enc == encode_data(self, method, params)
        t1 == <<Stage("encode_data", enc)>>
    IN  IF enc.kind = "raise" THEN [out |-> enc, trace |-> t1]
        ELSE
        LET reqkwargs0 == [timeout |-> self.timeout, data |-> enc.val]
            reqkwargs == pre_process_request(self, method, url, reqkwargs0)
            t2 == Append(t1, Stage("pre_process_request", Ret(reqkwargs)))
            sent == send_request(self, method, url, reqkwargs, env, sid)
            t3 == Append(t2, [stage |-> "send_request", out |-> sent.out,
                              request |-> sent.request])
        IN  IF sent.out.kind = "raise" THEN [out |-> sent.out, trace |-> t3]
            ELSE
            LET resp == sent.out.val
                dec == decode_data(self, resp.text)
                t4 == Append(t3, Stage("decode_data", dec))
            IN  IF dec.kind = "raise" THEN [out |-> dec, trace |-> t4]
                ELSE
                LET respcls0 == ResponseClass(resp, resp.status_code, dec.val)
                    respcls == post_process_request(self, respcls0)
                    t5 == Append(t4, Stage("post_process_request", Ret(respcls)))
                IN  [out |-> Ret(respcls), trace |-> t5]

\* ------------------------------------------------------------------ Resource
\* The base URLs a concrete Resource class answers from its overridden
\* accessors.
TestUrl == "https://test.example.com"
ProductionUrl == "https://example.com"

\* BaseResource._test_url: raises unless the concrete class overrides it.
\* `urls` is the set of accessors the concrete class overrides.
_test_url(self, urls) ==
    IF "test" \in urls THEN Ret(TestUrl)
    ELSE Raise(Exc("NotImplementedError",
                   "No URL for the test server has been specified"))

\* BaseResource._production_url: raises unless the concrete class overrides it.
_production_url(self, urls) ==
    IF "production" \in urls THEN Ret(ProductionUrl)
    ELSE Raise(Exc("NotImplementedError",
                   "No URL for the production server has been specified"))

\* A url that reads both accessors before it selects one.
url_reading_both(self, urls) ==
    LET test == _test_url(self, urls)
        production == _production_url(self, urls)
    IN  IF test.kind = "raise" THEN test
        ELSE IF production.kind = "raise" THEN production
        ELSE IF self.test THEN test ELSE production

\* BaseResource.url: the accessor of the Resource's environment, and only it.
url(self, urls) ==
    IF self.test THEN _test_url(self, urls) ELSE _production_url(self, urls)

\* BaseResource._build_url: os.path.join(self.url, *args).
_build_url(self, urls, args) ==
    LET base == url(self, urls)
    IN  IF base.kind = "raise" THEN base
        ELSE Ret([tag |-> "url", v |-> <<base.val>> \o args])

\* A classifier that takes only the codes from 400 up as failures.
_check_for_errors_from_400(self, code, data, response) ==
    IF code >= 400
    THEN Raise(ApiBaseException("SomeException",
                                "The API request was unsuccessful",
                                data, code, response))
    ELSE Ret(data)

\* SomeResource._check_for_errors.
_check_for_errors(self, code, data, response) ==
    IF code # 200
    THEN Raise(ApiBaseException("SomeException",
                                "The API request was unsuccessful",
                                data, code, response))
    ELSE Ret(data)

\* What a call of the real implementation did: its outcome, the trace of the
\* pipeline stages entered, what make_request gave back (none or one outcome)
\* and the _check_for_errors invocations made (none or one), each with its
\* arguments and what it gave back.
Did(out, trace, mr, cfe) ==
    [out |-> out, trace |-> trace, mr |-> mr, cfe |-> cfe]

\* An _api_call that returns the envelope's payload without classifying it.
_api_call_unchecked(self, target, method, data, env, sid) ==
    LET respcls == make_request(self.client, target, method, data, env, sid)
    IN  IF respcls.out.kind = "raise"
        THEN Did(respcls.out, respcls.trace, <<respcls.out>>, <<>>)
        ELSE Did(Ret(respcls.out.val.data), respcls.trace, <<respcls.out>>, <<>>)

\* An _api_call that turns what make_request raised into the library's own
\* error.
_api_call_translating(self, target, method, data, env, sid) ==
    LET respcls == make_request(self.client, target, method, data, env, sid)
    IN  IF respcls.out.kind = "raise"
        THEN Did(Raise([cls |-> "ApiBaseException", id |-> "request failed",
                        data |-> PyNone, code |-> PyNone, response |-> PyNone,
                        exc |-> respcls.out.val]),
                 respcls.trace, <<respcls.out>>, <<>>)
        ELSE
        LET e == respcls.out.val
            checked == _check_for_errors(self, e.code, e.data, e.response)
        IN  Did(checked, respcls.trace, <<respcls.out>>,
                <<[code |-> e.code, data |-> e.data, response |-> e.response,
                   out |-> checked]>>)

\* BaseResource._api_call: make_request, then _check_for_errors on the
\* envelope's code, data and response.
_api_call(self, target, method, data, env, sid) ==
    LET respcls == make_request(self.client, target, method, data, env, sid)
    IN  IF respcls.out.kind = "raise"
        THEN Did(respcls.out, respcls.trace, <<respcls.out>>, <<>>)
        ELSE
        LET e == respcls.out.val
            checked == _check_for_errors(self, e.code, e.data, e.response)
        IN  Did(checked, respcls.trace, <<respcls.out>>,
                <<[code |-> e.code, data |-> e.data, response |-> e.response,
                   out |-> checked]>>)

\* BaseResource.__init__: the environment flag and the Resource's own
\* Connector, an instance of the class `connector`.  The object `id` of class
\* `cls` is returned, or what constructing the Connector raised.
BaseResource(id, cls, test, connector, api_token, timeout) ==
    LET client == BaseConnector(id, connector, api_token, test, timeout)
    IN  IF client.kind = "raise" THEN client
        ELSE Ret([id |-> id, cls |-> cls, test |-> test, client |-> client.val])

\* The default timeout of the library.
DEFAULT_TIMEOUT == 15

\* The two clients: SomeClient("api-token", test=True, version={"resource": 1})
\* of the test fixture, and a production client of the same type.
ClientArgs(c) ==
    IF c = "c1" THEN [api_token |-> "api-token", test |-> TRUE]
    ELSE [api_token |-> "api-token-2", test |-> FALSE]

\* client.resource: the SomeResource a client binds under "resource".
ResourceOf(c) ==
    BaseResource(c, "SomeResource", ClientArgs(c).test, SomeConnector,
                 ClientArgs(c).api_token, DEFAULT_TIMEOUT).val

\* ------------------------------------------------- the operations' real code
\* The arguments of the calls made: f(), f(1, test=2) and f(242).
\* Keyword arguments are a set of <<name, value>> pairs.
CallArgs ==
    {[args |-> <<>>, kwargs |-> {}],
     [args |-> <<1>>, kwargs |-> {<<"test", "2">>}],
     [args |-> <<242>>, kwargs |-> {}]}

\* SomeResource.create(self, **data).
create(self, urls, args, kwargs, env, sid) ==
    IF args # <<>>
    THEN Did(Raise(Exc("TypeError", "create() takes 1 positional argument")),
             <<>>, <<>>, <<>>)
    ELSE
    LET target == _build_url(self, urls, <<"some", "path">>)
    IN  IF target.kind = "raise" THEN Did(target, <<>>, <<>>, <<>>)
        ELSE _api_call(self, target.val, "POST",
                       [tag |-> "dict", v |-> kwargs], env, sid)

\* SomeResource.other_operation(self, id).
other_operation(self, urls, args, kwargs, env, sid) ==
    IF Len(args) # 1 \/ kwargs # {}
    THEN Did(Raise(Exc("TypeError", "other_operation() arguments")),
             <<>>, <<>>, <<>>)
    ELSE
    LET target == _build_url(self, urls, <<"other", ToString(args[1]), "path">>)
    IN  IF target.kind = "raise" THEN Did(target, <<>>, <<>>, <<>>)
        ELSE _api_call(self, target.val, "GET", PyNone, env, sid)

\* func(self, *args, **kwargs) for the function an operation wraps.
Func(f, self, urls, args, kwargs, env, sid) ==
    IF f = "create" THEN create(self, urls, args, kwargs, env, sid)
    ELSE other_operation(self, urls, args, kwargs, env, sid)

\* -------------------------------------------------------------------- Client
\* The registry of a concrete Client type.  SomeClient registers ("resource", 1);
\* two more pairs are registered here so that a version map can select among
\* implementations, and ("other", 2) is left unregistered.
RESOURCE_MAPPER ==
    [key \in {<<"resource", 1>>, <<"resource", 2>>, <<"other", 1>>} |->
        CASE key = <<"resource", 1>> -> "SomeResource"
          [] key = <<"resource", 2>> -> "SomeResourceV2"
          [] key = <<"other", 1>> -> "OtherResource"]
\* SomeClient.DEFAULT_CONNECTOR.
DEFAULT_CONNECTOR == SomeConnector

\* Python's truth value of an argument: None and 0 are false.
Truthy(x) == x.tag # "None" /\ x.v # 0
PyInt(n) == [tag |-> "int", v |-> n]

\* The version maps passed: dicts of at most two namespaces, as the sequence
\* of their items in iteration order.
VersionItems == {"resource", "other"} \X {1, 2}
VersionMaps ==
    {<<>>} \cup {<<i>> : i \in VersionItems}
    \cup {<<i, j>> : <<i, j>> \in {p \in VersionItems \X VersionItems :
                                        p[1][1] # p[2][1]}}
\* The Connector classes passed, besides none at all: a complete one, and
\* one for each abstract hook left out.
ConnectorClasses ==
    {[name |-> "OtherConnector", hooks |-> AllHooks]}
    \cup {[name |-> "No_" \o h, hooks |-> AllHooks \ {h}] : h \in AllHooks}
\* SomeClient(api_token, version, test=..., timeout=..., connector=...).
ClientInputs ==
    [api_token : {"api-token"}, version : VersionMaps, test : BOOLEAN,
     timeout : {PyNone, PyInt(0), PyInt(30)},
     connector : {PyNone} \cup ConnectorClasses]

\* BaseClient.__init__, the attributes it assigns before _create_resources().
\* A timeout or a Connector class that is false is replaced by the default.
BaseClient(a) ==
    [api_token |-> a.api_token, version |-> a.version, test |-> a.test,
     timeout |-> IF Truthy(a.timeout) THEN a.timeout.v ELSE DEFAULT_TIMEOUT,
     connector |-> IF a.connector # PyNone THEN a.connector
                   ELSE DEFAULT_CONNECTOR]

\* A lookup that falls back to the base class for a pair not registered.
_get_resource_cls_lenient(self, namespace, version) ==
    IF <<namespace, version>> \in DOMAIN RESOURCE_MAPPER
    THEN Ret(RESOURCE_MAPPER[<<namespace, version>>])
    ELSE Ret("BaseResource")

\* BaseClient._get_resource_cls: the class registered for the pair, or
\* ValueError naming the pair.
_get_resource_cls(self, namespace, version) ==
    IF <<namespace, version>> \in DOMAIN RESOURCE_MAPPER
    THEN Ret(RESOURCE_MAPPER[<<namespace, version>>])
    ELSE Raise(Exc("ValueError",
                   "No resource with the namespace=" \o namespace
                   \o " and version=" \o ToString(version)))

\* Resource arguments that leave the timeout and the Connector class to the
\* defaults.
_get_resource_arguments_defaults(self) ==
    [api_token |-> self.api_token, test |-> self.test,
     timeout |-> DEFAULT_TIMEOUT, connector |-> DEFAULT_CONNECTOR]

\* BaseClient._get_resource_arguments.
_get_resource_arguments(self) ==
    [api_token |-> self.api_token, test |-> self.test,
     timeout |-> self.timeout, connector |-> self.connector]

\* A loop body that looks up every pair of the version map before it
\* instantiates the Resource of its own pair.
_create_resources_resolving_all(self, namespace, version) ==
    LET missing == {i \in 1..Len(self.version) :
                      self.version[i] \notin DOMAIN RESOURCE_MAPPER}
        first == CHOOSE i \in missing : \A j \in missing : i <= j
    IN  IF missing # {}
        THEN _get_resource_cls(self, self.version[first][1],
                               self.version[first][2])
        ELSE LET kw == _get_resource_arguments(self)
             IN  BaseResource(namespace, RESOURCE_MAPPER[<<namespace, version>>],
                              kw.test, kw.connector, kw.api_token, kw.timeout)

\* One iteration of the loop of BaseClient._create_resources: the class is
\* looked up and instantiated; the instance, or the error raised, is returned.
_create_resources(self, namespace, version) ==
    LET resource_cls == _get_resource_cls(self, namespace, version)
    IN  IF resource_cls.kind = "raise" THEN resource_cls
        ELSE LET kw == _get_resource_arguments(self)
             IN  BaseResource(namespace, resource_cls.val, kw.test,
                              kw.connector, kw.api_token, kw.timeout)

\* ---------------------------------------------------------------------- Mock
\* Mock(*args, **kwargs) as the tests configure it: nothing, return_value=...,
\* or side_effect=<an exception instance>.
MockConfigs ==
    {[kind |-> "plain", val |-> PyNone],
     [kind |-> "return_value", val |-> [tag |-> "dict", v |-> "status_OK"]],
     [kind |-> "side_effect",
      val |-> ApiBaseException("SomeException", "Something went horribly wrong",
                               PyNone, PyNone, PyNone)]}

\* Calling a Mock: a side_effect exception is raised as it is, a configured
\* return_value is returned, and otherwise the mock's own child mock is.
MockCall(m, cfg) ==
    CASE cfg.kind = "side_effect" -> Raise(cfg.val)
      [] cfg.kind = "return_value" -> Ret(cfg.val)
      [] OTHER -> Ret([tag |-> "Mock", v |-> ToString(m)])

\* --------------------------------------------------------------- the state
VARIABLES
    urls,       \* the URL accessors the concrete Resource class overrides
    slot,       \* slot[f]: func._mock of the function operation f wraps
    mocks,      \* the Mock objects created, by number: [func, cfg, call_args_list]
    scopes,     \* scopes[t]: the `with f.mock() as m:` blocks thread t is inside
    th,         \* th[t]: where thread t is inside manager() or inner()
    nCalls,     \* calls of wrapped operations started
    forwarded,  \* forwarded[m]: the (args, kwargs) of the calls inner sent to mock m
    ev,         \* the step just taken
    build       \* the Client under construction: BaseClient.__init__'s frame

vars == <<urls, slot, mocks, scopes, th, nCalls, forwarded, ev, build>>

Idle == [pc |-> "idle"]

\* The `with` blocks on f that are open, or being opened, in any thread.
OpenOn(f) ==
    {<<t, i>> \in Threads \X (1..MaxUses) :
        i <= Len(scopes[t]) /\ scopes[t][i].func = f}
Entering(f) == {t \in Threads : th[t].pc = "installed" /\ th[t].func = f}

Init ==
    /\ urls \in {{}, {"test", "production"}}
    \* _mock_manager: func._mock = None, once per wrapped function.
    /\ slot = [f \in Ops |-> None]
    /\ mocks = <<>>
    /\ scopes = [t \in Threads |-> <<>>]
    /\ th = [t \in Threads |-> Idle]
    /\ nCalls = 0
    /\ forwarded = <<>>
    /\ ev = [type |-> "init"]
    \* The Clients of this specification are constructed already.
    /\ build = [pc |-> "none"]

\* ------------------------------------------------------------ _mock_manager
\* A setup that keeps one slot for all the wrapped functions.
manager_setup_shared(f, cfg) ==
    [mock |-> [func |-> f, cfg |-> cfg, call_args_list |-> <<>>],
     slot |-> [g \in Ops |-> Len(mocks) + 1]]

\* manager(), setup: func._mock = Mock(*args, **kwargs).  A Mock is created
\* by this call and stored in the slot of func, and of func alone.
manager_setup(f, cfg) ==
    [mock |-> [func |-> f, cfg |-> cfg, call_args_list |-> <<>>],
     slot |-> [slot EXCEPT ![f] = Len(mocks) + 1]]

\* A teardown that leaves the slot as it is.
manager_teardown_keeps(f) == slot

\* manager(), teardown, reached when the `with` body completes: func._mock = None.
manager_teardown(f) == [slot EXCEPT ![f] = None]

\* manager() when the `with` body raises: the error is thrown into the
\* generator at its `yield`, which is not inside a try block, so the
\* generator ends there and the statement after the yield does not run.
manager_throw(f) == slot

\* `with f.mock(...)`: manager() runs up to the assignment of the slot.
Install(t, f, cfg) ==
    /\ th[t].pc = "idle"
    /\ Len(mocks) + nCalls < MaxUses
    /\ LET s == manager_setup(f, cfg)
       IN  /\ mocks' = Append(mocks, s.mock)
           /\ forwarded' = Append(forwarded, <<>>)
           /\ slot' = s.slot
           /\ th' = [th EXCEPT ![t] = [pc |-> "installed", func |-> f,
                                       installed |-> Len(mocks) + 1]]
           /\ ev' = [type |-> "install", t |-> t, func |-> f,
                     installed |-> Len(mocks) + 1]
    /\ UNCHANGED <<urls, build, scopes, nCalls>>

\* `yield func._mock`: the slot is read again and its value is what the
\* `with ... as mock` block receives.
Yield(t) ==
    /\ th[t].pc = "installed"
    /\ LET f == th[t].func
           frame == [func |-> f, mock |-> slot[f], installed |-> th[t].installed]
       IN  /\ scopes' = [scopes EXCEPT ![t] = Append(@, frame)]
           /\ ev' = [type |-> "enter", t |-> t, func |-> f, mock |-> frame.mock,
                     installed |-> frame.installed]
    /\ th' = [th EXCEPT ![t] = Idle]
    /\ UNCHANGED <<urls, build, slot, mocks, nCalls, forwarded>>

Top(t) == scopes[t][Len(scopes[t])]
Pop(t) == [scopes EXCEPT ![t] = SubSeq(@, 1, Len(@) - 1)]

\* The body of thread t's innermost `with` block completes (or returns).
ExitNormal(t) ==
    /\ th[t].pc = "idle"
    /\ scopes[t] # <<>>
    /\ slot' = manager_teardown(Top(t).func)
    /\ scopes' = Pop(t)
    /\ ev' = [type |-> "exit", t |-> t, func |-> Top(t).func, how |-> "normal",
              mock |-> Top(t).mock, installed |-> Top(t).installed]
    /\ UNCHANGED <<urls, build, mocks, th, nCalls, forwarded>>

\* An error raised in the body of thread t's innermost `with` block leaves it.
ExitRaise(t) ==
    /\ th[t].pc = "idle"
    /\ scopes[t] # <<>>
    /\ slot' = manager_throw(Top(t).func)
    /\ scopes' = Pop(t)
    /\ ev' = [type |-> "exit", t |-> t, func |-> Top(t).func, how |-> "raise",
              mock |-> Top(t).mock, installed |-> Top(t).installed]
    /\ UNCHANGED <<urls, build, mocks, th, nCalls, forwarded>>

\* ---------------------------------------------------------------- operation
\* An inner() that forwards the receiver to the mock as well.
inner_with_self(func_mock, self, args, kwargs) ==
    IF func_mock # None
    THEN [mock |-> <<[args |-> <<self>> \o args, kwargs |-> kwargs]>>,
          real |-> <<>>]
    ELSE [mock |-> <<>>,
          real |-> <<[self |-> self, args |-> args, kwargs |-> kwargs]>>]

\* An inner() that does not return after calling the mock and falls through
\* to the wrapped function.
inner_falls_through(func_mock, self, args, kwargs) ==
    [mock |-> IF func_mock # None
              THEN <<[args |-> args, kwargs |-> kwargs]>> ELSE <<>>,
     real |-> <<[self |-> self, args |-> args, kwargs |-> kwargs]>>]

\* inner(self, *args, **kwargs): what one invocation of a wrapped operation
\* calls, given the slot's value at `if func._mock:`.  A populated slot: the
\* mock, with the arguments but not self, and nothing else (the result is
\* returned at once).  An empty slot: the wrapped function, with self.
inner(func_mock, self, args, kwargs) ==
    IF func_mock # None
    THEN [mock |-> <<[args |-> args, kwargs |-> kwargs]>>, real |-> <<>>]
    ELSE [mock |-> <<>>,
          real |-> <<[self |-> self, args |-> args, kwargs |-> kwargs]>>]

\* Mock m's `with` block has been left: no thread is inside it or entering it.
Closed(m) ==
    /\ m # None
    /\ \A t \in Threads :
        /\ \A i \in 1..Len(scopes[t]) : scopes[t][i].installed # m
        /\ th[t].pc = "installed" => th[t].installed # m

\* An inner() that wraps what the mock raised into the library's own error.
inner_result_wrapped(out) ==
    IF out.kind = "raise"
    THEN Raise([cls |-> "ApiBaseException", id |-> "mocked call failed",
                data |-> PyNone, code |-> PyNone, response |-> PyNone,
                exc |-> out.val])
    ELSE out

\* `return func._mock(*args, **kwargs)`: what the Mock returned is returned,
\* and what it raised propagates, as it is.
inner_result(out) == out

\* The record of a finished call of a wrapped operation.
Called(t, c, route, m, real, did) ==
    [type |-> "call", t |-> t, func |-> c.func, self |-> c.self,
     args |-> c.args, kwargs |-> c.kwargs, slotAtCheck |-> c.slotAtCheck,
     route |-> route, mock |-> m, mockClosed |-> Closed(m),
     real |-> real, trace |-> did.trace, mr |-> did.mr, cfe |-> did.cfe,
     out |-> did.out]

\* Thread t calls self.<f>(*a.args, **a.kwargs) on the Resource self: inner()
\* reads the slot at `if func._mock:`.
CallCheck(t, f, self, a) ==
    /\ th[t].pc = "idle"
    /\ Len(mocks) + nCalls < MaxUses
    /\ nCalls' = nCalls + 1
    /\ LET plan == inner(slot[f], self, a.args, a.kwargs)
       IN  th' = [th EXCEPT ![t] =
                    [pc |-> IF plan.mock # <<>> THEN "mocked" ELSE "real",
                     func |-> f, self |-> self, args |-> a.args,
                     kwargs |-> a.kwargs, slotAtCheck |-> slot[f],
                     plan |-> plan]]
    /\ ev' = [type |-> "check", t |-> t, func |-> f]
    /\ UNCHANGED <<urls, build, slot, mocks, scopes, forwarded>>

\* `func._mock(...)`: the slot is read a second time, to get the callee.
CallLoad(t) ==
    /\ th[t].pc = "mocked"
    /\ th' = [th EXCEPT ![t] =
                [pc |-> "loaded", func |-> @.func, self |-> @.self,
                 args |-> @.args, kwargs |-> @.kwargs,
                 slotAtCheck |-> @.slotAtCheck, plan |-> @.plan,
                 loaded |-> slot[@.func]]]
    /\ ev' = [type |-> "load", t |-> t, func |-> th[t].func]
    /\ UNCHANGED <<urls, build, slot, mocks, scopes, nCalls, forwarded>>

\* The callee read from the slot is called.  None is not callable; a Mock
\* records the call it gets and answers as configured.  The call's result is
\* the result of inner(), unless inner() goes on to the wrapped function.
CallMock(t) ==
    /\ th[t].pc = "loaded"
    /\ LET c == th[t]
           m == c.loaded
           sent == c.plan.mock[1]
       IN  IF m = None
           THEN /\ ev' = Called(t, c, "mock", None, <<>>,
                            Did(Raise(Exc("TypeError",
                                          "'NoneType' object is not callable")),
                                <<>>, <<>>, <<>>))
                /\ th' = [th EXCEPT ![t] = Idle]
                /\ UNCHANGED <<mocks, forwarded>>
           ELSE /\ mocks' = [mocks EXCEPT ![m].call_args_list = Append(@, sent)]
                /\ forwarded' = [forwarded EXCEPT ![m] =
                                   Append(@, [args |-> c.args, kwargs |-> c.kwargs])]
                /\ LET out == MockCall(m, mocks[m].cfg)
                   IN  IF c.plan.real # <<>> /\ inner_result(out).kind = "ret"
                       THEN /\ th' = [th EXCEPT ![t] =
                                        [pc |-> "real", func |-> c.func,
                                         self |-> c.self, args |-> c.args,
                                         kwargs |-> c.kwargs,
                                         slotAtCheck |-> c.slotAtCheck,
                                         plan |-> c.plan, loaded |-> m]]
                            /\ ev' = [type |-> "mockcall", t |-> t, func |-> c.func]
                       ELSE /\ th' = [th EXCEPT ![t] = Idle]
                            /\ ev' = Called(t, c, "mock", m, <<>>,
                                            Did(inner_result(out), <<>>, <<>>, <<>>))
    /\ UNCHANGED <<urls, build, slot, scopes, nCalls>>

\* `func(self, *args, **kwargs)`: the wrapped function runs, from argument
\* binding to its return or its error; env is the transport's answer should
\* the function get as far as the dispatch.
CallReal(t, env) ==
    /\ th[t].pc = "real"
    /\ LET c == th[t]
           inv == c.plan.real[1]
           did == Func(c.func, inv.self, urls, inv.args, inv.kwargs, env, nCalls)
       IN  /\ ev' = Called(t, c, "real", None,
                           <<[func |-> c.func, self |-> inv.self,
                              args |-> inv.args, kwargs |-> inv.kwargs]>>, did)
    /\ th' = [th EXCEPT ![t] = Idle]
    /\ UNCHANGED <<urls, build, slot, mocks, scopes, nCalls, forwarded>>

\* --------------------------------------------------------- BaseClient.__init__
\* SomeClient(...) is called: __init__ assigns the Client's attributes and
\* enters _create_resources().
Construct ==
    /\ build.pc = "new"
    /\ build' = [pc |-> "creating", args |-> build.args,
                 self |-> BaseClient(build.args),
                 todo |-> build.args.version,
                 attrs |-> [n \in {} |-> PyNone]]
    /\ ev' = [type |-> "construct"]
    /\ UNCHANGED <<urls, slot, mocks, scopes, th, nCalls, forwarded>>

\* One iteration of `for namespace, version in self.version.items()`: the
\* Resource is created and bound with setattr, or the error leaves __init__.
CreateResource ==
    /\ build.pc = "creating"
    /\ build.todo # <<>>
    /\ LET namespace == Head(build.todo)[1]
           version == Head(build.todo)[2]
           resource == _create_resources(build.self, namespace, version)
       IN  /\ build' =
                IF resource.kind = "raise"
                THEN [pc |-> "raised", args |-> build.args, self |-> build.self,
                      todo |-> build.todo, attrs |-> build.attrs,
                      error |-> resource.val]
                ELSE [build EXCEPT
                        !.todo = Tail(@),
                        !.attrs = [n \in DOMAIN @ \cup {namespace} |->
                                     IF n = namespace THEN resource.val
                                     ELSE @[n]]]
           /\ ev' = [type |-> "resource", namespace |-> namespace,
                     version |-> version, out |-> resource]
    /\ UNCHANGED <<urls, slot, mocks, scopes, th, nCalls, forwarded>>

\* The loop is over: __init__ returns and the caller holds the Client.
Constructed ==
    /\ build.pc = "creating"
    /\ build.todo = <<>>
    /\ build' = [build EXCEPT !.pc = "done"]
    /\ ev' = [type |-> "constructed"]
    /\ UNCHANGED <<urls, slot, mocks, scopes, th, nCalls, forwarded>>

\* `client.<namespace>.url` is read.
ReadUrl(namespace) ==
    /\ build.pc = "done"
    /\ namespace \in DOMAIN build.attrs
    /\ ev' = [type |-> "url", self |-> build.attrs[namespace],
              out |-> url(build.attrs[namespace], urls)]
    /\ UNCHANGED <<urls, slot, mocks, scopes, th, nCalls, forwarded, build>>

\* ------------------------------------------- make_request, called directly
\* Thread t calls make_request on the Connector of `client` and runs it up
\* to `session = self.create_session()` in send_request; the hooks of
\* SomeConnector that run before it do not raise.
MakeRequest(t, client, method) ==
    /\ th[t].pc = "idle"
    /\ nCalls < MaxUses
    /\ nCalls' = nCalls + 1
    /\ LET self == ResourceOf(client).client
           session == create_session(self, nCalls + 1)
       IN  /\ th' = [th EXCEPT ![t] =
                        [pc |-> "dispatch", call |-> nCalls + 1, self |-> self,
                         method |-> method, session |-> session]]
           /\ ev' = [type |-> "session", t |-> t, call |-> nCalls + 1,
                     self |-> self, session |-> session]
    /\ UNCHANGED <<urls, build, slot, mocks, scopes, forwarded>>

\* `session.request(...)` of thread t's call answers, or fails, and
\* make_request runs to its end.
SessionRequest(t, env) ==
    /\ th[t].pc = "dispatch"
    /\ LET c == th[t]
           did == make_request(c.self, [tag |-> "url", v |-> <<TestUrl>>],
                               c.method, PyNone, env, c.call)
       IN  ev' = [type |-> "request", t |-> t, call |-> c.call,
                  self |-> c.self, session |-> c.session,
                  trace |-> did.trace, out |-> did.out]
    /\ th' = [th EXCEPT ![t] = Idle]
    /\ UNCHANGED <<urls, build, slot, mocks, scopes, nCalls, forwarded>>

\* ------------------------------------------------------- the specifications
Step(t) ==
    \/ \E f \in Ops, cfg \in MockConfigs : Install(t, f, cfg)
    \/ Yield(t)
    \/ ExitNormal(t)
    \/ ExitRaise(t)
    \/ \E f \in Ops, client \in Clients, a \in CallArgs :
            CallCheck(t, f, ResourceOf(client), a)
    \/ CallLoad(t)
    \/ CallMock(t)
    \/ \E env \in Transport : CallReal(t, env)

\* The library's scheduling model: one thread, every call blocking.
Next == Step("t1")
Spec == Init /\ [][Next]_vars

\* Any number of threads use the library at once.
NextThreads == \E t \in Threads : Step(t)
SpecThreads == Init /\ [][NextThreads]_vars

\* The use the mock interface is meant for: a scope on an operation is opened
\* only when none is open on it, and its body completes.
InstallFlat(t, f, cfg) ==
    /\ OpenOn(f) = {}
    /\ Entering(f) = {}
    /\ Install(t, f, cfg)

NextFlat ==
    \/ \E f \in Ops, cfg \in MockConfigs : InstallFlat("t1", f, cfg)
    \/ Yield("t1")
    \/ ExitNormal("t1")
    \/ \E f \in Ops, client \in Clients, a \in CallArgs :
            CallCheck("t1", f, ResourceOf(client), a)
    \/ CallLoad("t1")
    \/ CallMock("t1")
    \/ \E env \in Transport : CallReal("t1", env)
SpecFlat == Init /\ [][NextFlat]_vars

\* A Client is constructed from the caller's arguments and, once the caller
\* holds it, the operations of its Resources are called.
InitClient ==
    /\ urls \in SUBSET {"test", "production"}
    /\ slot = [f \in Ops |-> None]
    /\ mocks = <<>>
    /\ scopes = [t \in Threads |-> <<>>]
    /\ th = [t \in Threads |-> Idle]
    /\ nCalls = 0
    /\ forwarded = <<>>
    /\ ev = [type |-> "init"]
    /\ \E a \in ClientInputs : build = [pc |-> "new", args |-> a]

NextClient ==
    \/ Construct
    \/ CreateResource
    \/ Constructed
    \/ \E f \in Ops, namespace \in {"resource", "other"}, a \in CallArgs :
            /\ build.pc = "done"
            /\ namespace \in DOMAIN build.attrs
            /\ CallCheck("t1", f, build.attrs[namespace], a)
    \/ \E env \in Transport : CallReal("t1", env)
    \/ \E namespace \in {"resource", "other"} : ReadUrl(namespace)
SpecClient == InitClient /\ [][NextClient]_vars

\* Threads call make_request on the Connectors of the Clients, at once or
\* one call after the other.
NextRequests ==
    \E t \in Threads :
        \/ \E client \in Clients, method \in {"get", "POST"} :
                MakeRequest(t, client, method)
        \/ \E env \in Transport : SessionRequest(t, env)
SpecRequests == Init /\ [][NextRequests]_vars

\* ---------------------------------------------------------------- the claims
\* The frame of the `with` block at position p = <<thread, depth>>.
Frame(p) == scopes[p[1]][p[2]]
\* A call of a wrapped operation has just finished.
CallDone == ev.type = "call"
\* The configuration of the Mock the slot held when the call checked it.
CheckedCfg == mocks[ev.slotAtCheck].cfg

\* C1: when a mock() scope on an operation is exited, normally or by an error
\* raised in its body, the operation's slot is empty afterwards.
C1_SlotEmptyAfterExit ==
    ev.type = "exit" => slot[ev.func] = None

\* C2: over scopes on one operation that do not nest and whose bodies
\* complete, the slot is empty while no scope is open, holds exactly the
\* Mock the open scope yielded while one is, and each scope yields the Mock
\* created for it, not an earlier scope's.
C2_SlotFollowsScope ==
    /\ \A f \in Ops :
        /\ (OpenOn(f) = {} /\ Entering(f) = {}) => slot[f] = None
        /\ \A p \in OpenOn(f) :
            /\ Frame(p).mock # None
            /\ slot[f] = Frame(p).mock
    /\ ev.type = "enter" =>
        /\ ev.mock = Len(mocks)
        /\ mocks[ev.mock].call_args_list = <<>>
        /\ \A t \in Threads : \A i \in 1..Len(scopes[t]) :
              scopes[t][i].mock = ev.mock => (t = ev.t /\ i = Len(scopes[t]))

\* A second scope on an operation is open after the first was left, and the
\* slot holds the second scope's Mock.
C2_Witness ==
    /\ Len(mocks) = 2
    /\ mocks[1].func = mocks[2].func
    /\ OpenOn(mocks[2].func) = {<<"t1", 1>>}
    /\ slot[mocks[2].func] = 2

\* A slot only ever holds a Mock made for its own operation, and is empty when
\* no scope was ever opened on its operation; a call of an operation whose
\* slot is empty runs that operation's real function; a Mock only gets the
\* calls of the operation it was made for.
C3_SlotsIndependentState ==
    /\ \A f \in Ops : slot[f] # None => mocks[slot[f]].func = f
    /\ \A f \in Ops :
        (\A m \in 1..Len(mocks) : mocks[m].func # f) => slot[f] = None
    /\ CallDone =>
        /\ ev.slotAtCheck = None =>
            /\ ev.route = "real"
            /\ Len(ev.real) = 1
            /\ ev.real[1].func = ev.func
        /\ (ev.route = "mock" /\ ev.mock # None) => mocks[ev.mock].func = ev.func
\* A step changes an operation's slot only if it opens or leaves a scope on
\* that very operation.
C3_SlotsIndependentStep ==
    \A f \in Ops :
        slot'[f] # slot[f] => (ev'.type \in {"install", "exit"} /\ ev'.func = f)

\* C3: the slots of two operations are independent.  Opening or leaving a
\* scope on operation A, and calling A, leave the slot of another operation B
\* as it was, so B's slot is empty for the whole of A's scope when it was
\* empty before; a call of B made while its slot is empty runs B's real
\* function, whether a scope is open on A or not; and A's Mock never gets a
\* call of B.
C3_SlotsIndependent ==
    []C3_SlotsIndependentState /\ [][C3_SlotsIndependentStep]_vars

\* A call of one operation has run its real function while a scope on the
\* other operation was open and that operation's slot held a Mock.
C3_Witness ==
    /\ CallDone
    /\ ev.route = "real"
    /\ slot[ev.func] = None
    /\ \E g \in Ops \ {ev.func} : OpenOn(g) # {} /\ slot[g] # None

\* C4: a call of a wrapped operation made while its slot holds a scope's Mock
\* goes to that Mock with exactly the call's positional and keyword arguments
\* and without the receiver; the Mock's list of recorded calls is the list of
\* the calls sent to it, each once and in the order they were made.
C4_ForwardedExactly ==
    /\ \A m \in 1..Len(mocks) : mocks[m].call_args_list = forwarded[m]
    /\ (CallDone /\ ev.slotAtCheck # None) =>
        /\ ev.route = "mock"
        /\ ev.mock = ev.slotAtCheck
        /\ LET calls == mocks[ev.mock].call_args_list
           IN  /\ calls # <<>>
               /\ calls[Len(calls)] = [args |-> ev.args, kwargs |-> ev.kwargs]

\* A Mock has recorded two calls with different arguments, the second just now.
C4_Witness ==
    /\ CallDone
    /\ ev.route = "mock"
    /\ ev.mock # None
    /\ OpenOn(ev.func) # {}
    /\ Len(mocks[ev.mock].call_args_list) = 2
    /\ mocks[ev.mock].call_args_list[1] # mocks[ev.mock].call_args_list[2]

\* C5: a call made while the slot holds a Mock configured with a return value
\* returns exactly that value, and neither the real function nor any stage of
\* the request pipeline runs for it.
C5_ReturnValueNoPipeline ==
    (CallDone /\ ev.slotAtCheck # None /\ CheckedCfg.kind = "return_value") =>
        /\ ev.out = Ret(CheckedCfg.val)
        /\ ev.real = <<>>
        /\ ev.trace = <<>>
        /\ ev.mr = <<>>
        /\ ev.cfe = <<>>

\* A call has returned the configured value of the open scope's Mock.
C5_Witness ==
    /\ CallDone
    /\ ev.slotAtCheck # None
    /\ CheckedCfg.kind = "return_value"
    /\ OpenOn(ev.func) # {}
    /\ ev.out.kind = "ret"

\* C6: a call made while the slot holds a Mock configured to raise an error
\* instance raises that very instance, and the real function is not invoked.
C6_RaisesSameInstance ==
    (CallDone /\ ev.slotAtCheck # None /\ CheckedCfg.kind = "side_effect") =>
        /\ ev.out = Raise(CheckedCfg.val)
        /\ ev.real = <<>>
        /\ ev.trace = <<>>

\* A call has raised while the open scope's Mock was configured to raise.
C6_Witness ==
    /\ CallDone
    /\ ev.slotAtCheck # None
    /\ CheckedCfg.kind = "side_effect"
    /\ OpenOn(ev.func) # {}
    /\ ev.out.kind = "raise"

\* C7: every call checks the slot first; with the slot empty it runs the real
\* function exactly once, with the receiver and the call's own arguments; and
\* the Mock of a scope that has been left is never called.
C7_RealWhenEmptyNeverClosedMock ==
    CallDone =>
        /\ ev.slotAtCheck = None =>
            /\ ev.route = "real"
            /\ ev.real = <<[func |-> ev.func, self |-> ev.self,
                            args |-> ev.args, kwargs |-> ev.kwargs]>>
        /\ ev.route = "mock" => ~ev.mockClosed

\* C8: the slot is shared by every instance.  A call through any client goes
\* to the Mock of the scope open on the operation, and once no scope is open
\* on the operation no client's call is intercepted.
C8_SharedWhileOpenOnly ==
    CallDone =>
        /\ (\E p \in OpenOn(ev.func) :
               Frame(p).mock # None /\ Frame(p).mock = ev.slotAtCheck) =>
            (ev.route = "mock" /\ ev.mock = ev.slotAtCheck)
        /\ OpenOn(ev.func) = {} => ev.route = "real"

\* The names of the stages of a trace, in order.
StageNames(trace) == [i \in 1..Len(trace) |-> trace[i].stage]
\* The stages of make_request.
Pipeline ==
    <<"encode_data", "pre_process_request", "send_request", "decode_data",
      "post_process_request">>
\* The places of a stage in a trace.
Places(trace, name) == {i \in 1..Len(trace) : trace[i].stage = name}

\* C9: a call of make_request enters the stages in the order encode_data,
\* pre_process_request, send_request, decode_data, post_process_request, each
\* at most once and each only after the one before it has returned; when it
\* returns an envelope it has entered all five, and the envelope is what
\* post_process_request returned.
C9_PipelineInOrder ==
    (CallDone /\ ev.mr # <<>>) =>
        /\ ev.trace # <<>>
        /\ StageNames(ev.trace) = SubSeq(Pipeline, 1, Len(ev.trace))
        /\ \A i \in 1..(Len(ev.trace) - 1) : ev.trace[i].out.kind = "ret"
        /\ ev.mr[1] = ev.trace[Len(ev.trace)].out
        /\ ev.mr[1].kind = "ret" => Len(ev.trace) = Len(Pipeline)

\* make_request has returned an envelope.
C9_Witness ==
    /\ CallDone
    /\ ev.mr # <<>>
    /\ ev.mr[1].kind = "ret"
    /\ Len(ev.trace) = 5
    /\ ev.mr[1].val.code = 404

\* The transport dispatch of the call raised.
DispatchFailed ==
    /\ CallDone
    /\ \E i \in Places(ev.trace, "send_request") : ev.trace[i].out.kind = "raise"

Assigned == build.pc \in {"creating", "raised", "done"}
\* The namespaces the version map requests.
Requested == {build.args.version[i][1] : i \in 1..Len(build.args.version)}
\* Every pair of the version map is registered.
AllRegistered ==
    \A i \in 1..Len(build.args.version) :
        build.args.version[i] \in DOMAIN RESOURCE_MAPPER
\* The Client's Connector class overrides create_headers.
HasCreateHeaders == "create_headers" \in build.self.connector.hooks

\* C11: when every pair of the version map is registered (and the Connector
\* class can be instantiated), construction does not fail, and the Client the
\* caller gets has, for each requested namespace, an attribute that is an
\* instance of the class registered for the pair, built with the Client's
\* token, flag, timeout and Connector class; it has no other Resource.
C11_ResourcesAsRegistered ==
    (Assigned /\ AllRegistered /\ HasCreateHeaders) =>
        /\ build.pc # "raised"
        /\ build.pc = "done" =>
            /\ DOMAIN build.attrs = Requested
            /\ \A i \in 1..Len(build.args.version) :
                LET namespace == build.args.version[i][1]
                    resource == build.attrs[namespace]
                IN  /\ resource.cls = RESOURCE_MAPPER[build.args.version[i]]
                    /\ resource.test = build.args.test
                    /\ resource.client.cls = build.self.connector.name
                    /\ resource.client.hooks = build.self.connector.hooks
                    /\ resource.client.api_token = build.args.api_token
                    /\ resource.client.test = build.args.test
                    /\ resource.client.timeout = build.self.timeout
C11_Witness ==
    /\ build.pc = "done"
    /\ build.args.version = << <<"other", 1>>, <<"resource", 2>> >>
    /\ build.args.timeout = PyInt(30)
    /\ build.args.connector # PyNone
    /\ build.attrs["resource"].cls = "SomeResourceV2"
    /\ build.attrs["other"].client.timeout = 30

\* The first pair of the version map, in iteration order, that is not
\* registered.
FirstUnregistered ==
    build.args.version[
        CHOOSE i \in 1..Len(build.args.version) :
            /\ build.args.version[i] \notin DOMAIN RESOURCE_MAPPER
            /\ \A j \in 1..(i - 1) :
                    build.args.version[j] \in DOMAIN RESOURCE_MAPPER]

\* C12: when the version map has a pair that is not registered (and the
\* Connector class can be instantiated), the caller never gets a Client:
\* construction raises ValueError, whose message names the namespace and the
\* version of the pair, and no Resource is bound for that namespace.
C12_UnregisteredPairRaises ==
    (Assigned /\ ~AllRegistered /\ HasCreateHeaders) =>
        /\ build.pc # "done"
        /\ FirstUnregistered[1] \notin DOMAIN build.attrs
        /\ build.pc = "raised" =>
            /\ build.error.cls = "ValueError"
            /\ build.error.id =
                    "No resource with the namespace=" \o FirstUnregistered[1]
                    \o " and version=" \o ToString(FirstUnregistered[2])
C12_Witness ==
    /\ build.pc = "raised"
    /\ build.args.version = << <<"resource", 1>>, <<"other", 2>> >>
    /\ build.error =
            Exc("ValueError", "No resource with the namespace=other and version=2")
    /\ DOMAIN build.attrs = {"resource"}

\* ------------------------------------------------- claims on _api_call
\* The wrapped function of the finished call got as far as _api_call: it did
\* not fail binding its arguments or reading the URL.
ReachedApiCall ==
    /\ CallDone
    /\ ev.real # <<>>
    /\ ~(/\ ev.out.kind = "raise"
         /\ ev.out.val.cls \in {"TypeError", "NotImplementedError"}
         /\ ev.trace = <<>>)

ApiBaseExceptionSubclasses == {"SomeException"}

\* C14: SomeResource._check_for_errors returns the payload it was given when
\* the code is 200; for any other code it raises an instance of a subclass of
\* ApiBaseException that carries the code, the payload and the response it
\* was given.
C14_ClassifierByCode ==
    (CallDone /\ ev.cfe # <<>>) =>
        LET c == ev.cfe[1]
        IN  IF c.code = 200
            THEN c.out = Ret(c.data)
            ELSE /\ c.out.kind = "raise"
                 /\ c.out.val.cls \in ApiBaseExceptionSubclasses
                 /\ c.out.val.code = c.code
                 /\ c.out.val.data = c.data
                 /\ c.out.val.response = c.response
C14_Witness ==
    /\ CallDone
    /\ ev.cfe # <<>>
    /\ ev.cfe[1].code = 201
    /\ ev.cfe[1].out.kind = "raise"
    /\ ev.cfe[1].out.val.code = 201

\* ------------------------------------------------- claims on sessions
\* The mutable objects a session holds: the Session itself, with the cookies,
\* adapters and connection pools Session() gave it, and its headers dict.
Objects(session) == {<<"Session", session.id>>, <<"dict", session.headers.oid>>}
\* The threads whose call holds a session and has not finished.
Dispatching == {t \in Threads : th[t].pc = "dispatch"}
\* Two sessions of calls on the Connectors a and b share nothing but, when a
\* and b are one Connector, the headers dict of that Connector.
SharingOnlyHeaders(s1, a, s2, b) ==
    /\ s1.id # s2.id
    /\ Objects(s1) \cap Objects(s2) =
            IF a.id = b.id THEN {<<"dict", a.headers.oid>>} ELSE {}

C15_SessionsState ==
    /\ \A t, u \in Dispatching :
            t # u => SharingOnlyHeaders(th[t].session, th[t].self,
                                        th[u].session, th[u].self)
    /\ ev.type = "request" =>
            \A i \in 1..Len(ev.trace) :
                ev.trace[i].stage = "send_request" =>
                    /\ ev.trace[i].request.session = ev.session
                    /\ ev.session.id = ev.call
C15_SessionsStep ==
    (ev.type = "request" /\ ev'.type = "session") =>
        SharingOnlyHeaders(ev.session, ev.self, ev'.session, ev'.self)
\* C15: every dispatch uses the session its own call created, and the
\* sessions of two calls, made at once or one after the other, are different
\* Session objects that share nothing but the headers dict of the Connector
\* when both calls are on the same Connector.
C15_SessionPerCall == []C15_SessionsState /\ [][C15_SessionsStep]_vars
C15_Witness ==
    /\ Dispatching = Threads
    /\ th["t1"].self.id = th["t2"].self.id
    /\ th["t1"].session.id # th["t2"].session.id
    /\ th["t1"].session.headers.oid = th["t2"].session.headers.oid
\* C15 as stated: the sessions of two concurrent calls share no mutable
\* object.
C15_NothingShared ==
    \A t, u \in Dispatching :
        t # u => Objects(th[t].session) \cap Objects(th[u].session) = {}

\* ------------------------------------------------- claims on the headers
\* The entries of a call's trace made by send_request.
Sent(trace) == {i \in 1..Len(trace) : trace[i].stage = "send_request"}

\* C16: create_headers runs once for a Connector, in its construction and
\* after the token, the flag and the timeout are assigned: it never meets an
\* unassigned attribute, and the headers of every constructed Connector are
\* the dict made then, from the token assigned.  The headers are not computed
\* again: every session of every later call holds that same dict.
C16_HeadersComputedOnce ==
    /\ build.pc = "raised" => build.error.cls # "AttributeError"
    /\ build.pc \in {"creating", "raised", "done"} =>
        \A namespace \in DOMAIN build.attrs :
            LET client == build.attrs[namespace].client
            IN  /\ client.headers.oid = <<client.id, "__init__">>
                /\ client.headers.Authorization = build.args.api_token
    /\ (build.pc = "done" /\ CallDone) =>
        \A i \in Sent(ev.trace) :
            LET client == build.attrs[ev.self.id].client
            IN  /\ ev.trace[i].request.session.headers = client.headers
                /\ ev.self.client.headers = client.headers
C16_Witness ==
    /\ build.pc = "done"
    /\ CallDone
    /\ nCalls = 2
    /\ Sent(ev.trace) # {}
    /\ \A i \in Sent(ev.trace) :
            ev.trace[i].request.session.headers.oid = <<ev.self.id, "__init__">>

\* ------------------------------------------------- claims on the URL
\* C17: reading url gives the test URL when the Resource's flag is set and
\* the production URL otherwise; it raises NotImplementedError exactly when
\* the accessor of the selected environment is not overridden, whatever the
\* other accessor is; and a dispatched request goes to the selected URL.
C17_UrlOfSelectedEnvironment ==
    /\ ev.type = "url" =>
        IF ev.self.test
        THEN IF "test" \in urls THEN ev.out = Ret(TestUrl)
             ELSE /\ ev.out.kind = "raise"
                  /\ ev.out.val.cls = "NotImplementedError"
        ELSE IF "production" \in urls THEN ev.out = Ret(ProductionUrl)
             ELSE /\ ev.out.kind = "raise"
                  /\ ev.out.val.cls = "NotImplementedError"
    /\ (build.pc = "done" /\ CallDone) =>
        \A i \in Sent(ev.trace) :
            ev.trace[i].request.url.v[1] =
                IF ev.self.test THEN TestUrl ELSE ProductionUrl
C17_Witness ==
    /\ ev.type = "url"
    /\ ~ev.self.test
    /\ urls = {"production"}
    /\ ev.out = Ret(ProductionUrl)

\* ------------------------------------------------- claims on the timeout
\* The timeout the caller asked for: the one passed, or the default when
\* none was passed.
TimeoutAskedFor ==
    IF build.args.timeout # PyNone THEN build.args.timeout.v
    ELSE DEFAULT_TIMEOUT

\* C18: the Connector of every Resource is given, and every request it
\* dispatches carries, the timeout the caller passed when one was passed and
\* the default of 15 only when none was.
C18_TimeoutAsSupplied ==
    /\ build.pc \in {"creating", "raised", "done"} =>
        \A namespace \in DOMAIN build.attrs :
            build.attrs[namespace].client.timeout = TimeoutAskedFor
    /\ (build.pc = "done" /\ CallDone) =>
        \A i \in Sent(ev.trace) :
            ev.trace[i].request.timeout = TimeoutAskedFor

\* ------------------------------------------------- claims on the hooks
\* The outcome is the NotImplementedError of the abstract hook `hook`.
NotImplemented(out, hook) == out = Raise(Exc("NotImplementedError", hook))

\* C19: a Connector class without create_headers cannot be instantiated:
\* creating the Resource of a registered pair raises NotImplementedError, no
\* Resource is ever bound, and the caller gets no Client that has one.
\* Without encode_data a call fails in encode_data, before
\* pre_process_request and before any dispatch.  Without decode_data a call
\* is dispatched, and when the transport answers it fails in decode_data: no
\* envelope is made and post_process_request does not run.
C19_MissingHookFails ==
    /\ (Assigned /\ ~HasCreateHeaders) =>
        /\ DOMAIN build.attrs = {}
        /\ build.pc = "done" => build.args.version = <<>>
        /\ (ev.type = "resource"
             /\ <<ev.namespace, ev.version>> \in DOMAIN RESOURCE_MAPPER) =>
                /\ NotImplemented(ev.out, "create_headers")
                /\ build.pc = "raised"
                /\ build.error = ev.out.val
    /\ (build.pc = "done" /\ ReachedApiCall
         /\ "encode_data" \notin ev.self.client.hooks) =>
        /\ StageNames(ev.trace) = <<"encode_data">>
        /\ NotImplemented(ev.out, "encode_data")
        /\ ev.mr = <<ev.out>>
    /\ (build.pc = "done" /\ ReachedApiCall
         /\ "decode_data" \notin ev.self.client.hooks) =>
        /\ Sent(ev.trace) = {3}
        /\ ev.mr[1].kind = "raise"
        /\ ev.mr = <<ev.out>>
        /\ IF ev.trace[3].out.kind = "raise"
           THEN /\ Len(ev.trace) = 3
                /\ ev.out = ev.trace[3].out
           ELSE /\ StageNames(ev.trace) =
                    <<"encode_data", "pre_process_request", "send_request",
                      "decode_data">>
                /\ NotImplemented(ev.out, "decode_data")
C19_Witness ==
    /\ build.pc = "done"
    /\ ReachedApiCall
    /\ ev.self.client.cls = "No_decode_data"
    /\ Len(ev.trace) = 4
    /\ ev.trace[3].out.kind = "ret"
    /\ NotImplemented(ev.out, "decode_data")

\* ------------------------------------------------- claims on nested scopes
\* C20: with two scopes open at once on one operation, the slot holds the
\* stand-in of the scope entered last; the first of them to exit empties the
\* slot, the earlier stand-in is not put back, and a call made in what is
\* left of the scope still open runs the real implementation and reaches no
\* stand-in.
C20_FirstExitEmptiesSlot ==
    /\ (ev.type = "install" /\ OpenOn(ev.func) # {}) =>
            slot[ev.func] = ev.installed
    /\ (ev.type = "exit" /\ OpenOn(ev.func) # {}) =>
            slot[ev.func] = None
    /\ (/\ CallDone
        /\ OpenOn(ev.func) # {}
        /\ Entering(ev.func) = {}
        /\ \A p \in OpenOn(ev.func) : Frame(p).installed # ev.slotAtCheck) =>
            /\ ev.route = "real"
            /\ ev.mock = None

\* ------------------------------------------- claims on the order of binding
\* The number of pairs of the version map the loop has gone through.
Iterated == Len(build.args.version) - Len(build.todo)
\* The namespaces of the first n pairs of the version map.
FirstNamespaces(n) == {build.args.version[i][1] : i \in 1..n}
\* The place in the version map of the first pair that is not registered.
FirstUnregisteredAt ==
    CHOOSE k \in 1..Len(build.args.version) :
        /\ build.args.version[k] \notin DOMAIN RESOURCE_MAPPER
        /\ \A j \in 1..(k - 1) :
                build.args.version[j] \in DOMAIN RESOURCE_MAPPER

\* C21: construction goes through the version map in its iteration order,
\* one pair at a time: the pairs still to do are a tail of the map, and the
\* namespaces bound are those of the pairs before it, each to a Resource of
\* the registered class with its own Connector.  When the k-th pair is the
\* first unregistered one (and the Connector class can be instantiated), the
\* error is raised in the k-th iteration, for that pair; the k-1 pairs before
\* it are bound by then, and nothing is instantiated for the k-th pair or
\* for a pair after it.
C21_BoundInIterationOrder ==
    (Assigned /\ HasCreateHeaders) =>
        /\ build.todo = SubSeq(build.args.version, Iterated + 1,
                               Len(build.args.version))
        /\ DOMAIN build.attrs = FirstNamespaces(Iterated)
        /\ \A i \in 1..Iterated :
            LET resource == build.attrs[build.args.version[i][1]]
            IN  /\ resource.cls = RESOURCE_MAPPER[build.args.version[i]]
                /\ resource.id = build.args.version[i][1]
                /\ resource.client.id = build.args.version[i][1]
        /\ ev.type = "resource" =>
            /\ <<ev.namespace, ev.version>> =
                    build.args.version[IF ev.out.kind = "raise"
                                       THEN Iterated + 1 ELSE Iterated]
            /\ ev.out.kind = "ret" => ev.out.val = build.attrs[ev.namespace]
        /\ ~AllRegistered =>
            /\ Iterated < FirstUnregisteredAt
            /\ build.pc = "raised" =>
                /\ Iterated = FirstUnregisteredAt - 1
                /\ ev.type = "resource"
                /\ <<ev.namespace, ev.version>> =
                        build.args.version[FirstUnregisteredAt]
                /\ ev.out = Raise(build.error)
                /\ build.error.cls = "ValueError"
C21_Witness ==
    /\ build.pc = "raised"
    /\ build.args.version = << <<"resource", 2>>, <<"other", 2>> >>
    /\ Iterated = 1
    /\ build.attrs["resource"].cls = "SomeResourceV2"
    /\ build.attrs["resource"].client.id = "resource"
    /\ ev.type = "resource"
    /\ ev.namespace = "other"
    /\ ev.out.kind = "raise"
====
